---- MODULE Spec2Model ----
(***************************************************************************)
(* pyaquarium: the entity simulation of src/pyaquarium.py.                 *)
(*                                                                         *)
(* A string is modelled by its length (only len() of an art line is ever   *)
(* read by the simulation), so an art is a sequence of line lengths.       *)
(* An object is modelled by a record with a unique id (its identity).      *)
(* Every random.* call is an input chosen with \E.                          *)
(***************************************************************************)
EXTENDS Integers, Sequences, FiniteSets, TLC

VARIABLES
    max_x,      \* Aquarium.max_x  (viewport width,  from getmaxyx)
    max_y,      \* Aquarium.max_y  (viewport height, from getmaxyx)
    entities,   \* Aquarium.entities, a list of entity records
    running,    \* Aquarium.running
    pc,         \* position of Aquarium.run inside one loop iteration
    nextId,     \* identity the next constructed object gets
    prev,       \* history: Aquarium.entities at the entry of the last update
    born,       \* history: <<[id, src]>> bubbles made by the last update
    frame,      \* history: what the last Aquarium.draw did
    now,        \* the clock value read by the last loop iteration (in Ticks)
    last_fish_spawn,            \* local of Aquarium.run
    last_rare_spawn_check,      \* local of Aquarium.run
    last_castle_color_change,   \* Aquarium.last_castle_color_change
    last_water_color_change,    \* Aquarium.last_water_color_change
    last_water_shift,           \* Aquarium.last_water_shift
    castle_color_index,         \* Aquarium.castle_color_index
    water_color_index,          \* Aquarium.water_color_index
    water_offset,               \* Aquarium.water_offset
    fired,      \* history: the cadences that fired in the last iteration
    ua,         \* unit level: the entity self
    ub,         \* unit level: the entity other
    ua0,        \* unit level: self before the last call
    ures,       \* unit level: value returned by the last call
    uop         \* unit level: name of the last call

simVars == <<max_x, max_y, entities, running, pc, nextId, prev, born, frame>>
unitVars == <<ua, ub, ua0, ures, uop>>
clockVars == <<now, last_fish_spawn, last_rare_spawn_check,
               last_castle_color_change, last_water_color_change,
               last_water_shift, castle_color_index, water_color_index,
               water_offset, fired>>

vars == <<simVars, unitVars, clockVars>>

----------------------------------------------------------------------------
(* Bounds of the model *)

\* the viewport: max_y, max_x = screen.getmaxyx().  14 rows is the smallest
\* height for which no randint range of a spawn is empty
ViewWidth == 2
ViewHeight == 14
\* the viewports the spawns alone are run in: 1..MaxViewWidth columns and
\* 1..MaxViewHeight rows
MaxViewWidth == 4
MaxViewHeight == 16
\* number of entities the collection holds at most
MaxEntities == 2
\* number of objects constructed at most over a run
MaxId == 3
\* the short viewports the whole loop is run in: 1..MaxTinyHeight rows
MaxTinyHeight == 10
\* clock level: time in milliseconds, up to MaxTime; an iteration takes the
\* sleep, or Stall when the process was held up
MaxTime == 7400
Stall == 7001
\* unit level: coordinates range over -MaxCoord..MaxCoord
MaxCoord == 3
\* unit level: art lines are 0..MaxLine long, arts have 0..MaxLines lines
MaxLine == 3
MaxLines == 2

----------------------------------------------------------------------------
(* Art tables: each string replaced by its length *)

FISH_ART == << <<5, 6>>, <<3, 3>> >>

SHARK_ART == << <<17, 23, 23, 18>>, <<15, 28, 26, 27>> >>

OTHER_CREATURES == << <<9>>, <<11, 14, 15, 14, 14, 14, 16>> >>

\* CASTLE_ART[0].strip().splitlines()
CASTLE_ART == <<10, 10, 11, 12, 24, 26, 26, 25, 25, 25, 25, 25, 25>>

WATER_LINE == <<53, 33, 32, 31>>

----------------------------------------------------------------------------
(* Entities *)

RECURSIVE MaxOf(_)
MaxOf(s) ==
    IF Len(s) = 1 THEN s[1]
    ELSE LET m == MaxOf(Tail(s)) IN IF s[1] >= m THEN s[1] ELSE m

\* max(len(line) for line in self.art) if self.art else 0
ArtWidth(art) == IF art = <<>> THEN 0 ELSE MaxOf(art)

\* Entity.__init__ ; the base class sets no kind
Entity(id, x, y, art, direction) ==
    [id |-> id, kind |-> "entity", x |-> x, y |-> y, direction |-> direction,
     width |-> ArtWidth(art), height |-> Len(art), dead |-> FALSE]

Fish(id, x, y, art, direction) ==
    [Entity(id, x, y, art, direction) EXCEPT !.kind = "fish"]

\* the art is one of ".", "o", "O": one line of length 1
Bubble(id, x, y) ==
    [Entity(id, x, y, <<1>>, 0) EXCEPT !.kind = "bubble"]

\* mutant of Shark: the art of the other direction is picked
Shark_swapped(id, mx, my, direction, y) ==
    LET art_index == IF direction = 1 THEN 1 ELSE 0
        art == SHARK_ART[art_index + 1]
        e == Entity(id, 0, y, art, direction)
    IN  [e EXCEPT !.x = IF direction = 1 THEN 0 - e.width ELSE mx,
                  !.kind = "shark"]

\* Shark.__init__ with its random choices direction and y given
Shark(id, mx, my, direction, y) ==
    LET art_index == IF direction = 1 THEN 0 ELSE 1
        art == SHARK_ART[art_index + 1]
        e == Entity(id, 0, y, art, direction)
    IN  [e EXCEPT !.x = IF direction = 1 THEN 0 - e.width ELSE mx,
                  !.kind = "shark"]

\* the range random.randint draws the shark's y from
SharkYRange(my, direction) ==
    LET art == SHARK_ART[(IF direction = 1 THEN 0 ELSE 1) + 1]
    IN  8 .. (my - Len(art) - 2)

\* OtherCreature.__init__ with its random choices direction and y given
OtherCreature(id, mx, my, direction, y) ==
    LET art == OTHER_CREATURES[1]
        e == Entity(id, 0, y, art, direction)
    IN  [e EXCEPT !.x = IF direction = 1 THEN 0 - e.width ELSE mx,
                  !.kind = "other_creature"]

OtherCreatureYRange(my) == 5 .. (my - Len(OTHER_CREATURES[1]) - 5)

\* mutant of EntityMove: the right bound tested with >= instead of >
EntityMove_ge(e, max_width, max_height) ==
    LET nx == e.x + e.direction
    IN  [e EXCEPT !.x = nx,
                  !.dead = IF nx < -e.width \/ nx >= max_width THEN TRUE ELSE e.dead]

\* Entity.move
EntityMove(e, max_width, max_height) ==
    LET nx == e.x + e.direction
    IN  [e EXCEPT !.x = nx,
                  !.dead = IF nx < -e.width \/ nx > max_width THEN TRUE ELSE e.dead]

\* mutant of BubbleMove: the bubble dies one row early
BubbleMove_early(e, max_width, max_height) ==
    LET ny == e.y - 1
    IN  [e EXCEPT !.y = ny, !.dead = IF ny <= 1 THEN TRUE ELSE e.dead]

\* Bubble.move
BubbleMove(e, max_width, max_height) ==
    LET ny == e.y - 1
    IN  [e EXCEPT !.y = ny, !.dead = IF ny < 1 THEN TRUE ELSE e.dead]

\* mutant of move: Bubble does not override Entity.move
move_base(e, max_width, max_height) == EntityMove(e, max_width, max_height)

\* entity.move(...) : dispatch on the class
move(e, max_width, max_height) ==
    IF e.kind = "bubble" THEN BubbleMove(e, max_width, max_height)
    ELSE EntityMove(e, max_width, max_height)

\* mutant of collides_with: both x tests inclusive, so touching edges collide
collides_with_touch(self, other) ==
    /\ self.x <= other.x + other.width
    /\ self.x + self.width >= other.x
    /\ self.y < other.y + other.height
    /\ self.y + self.height > other.y

\* mutant of collides_with: only the first x test inclusive
collides_with_onesided(self, other) ==
    /\ self.x <= other.x + other.width
    /\ self.x + self.width > other.x
    /\ self.y < other.y + other.height
    /\ self.y + self.height > other.y

\* mutant of collides_with: the first x test forgets the other's width
collides_with_nowidth(self, other) ==
    /\ self.x < other.x
    /\ self.x + self.width > other.x
    /\ self.y < other.y + other.height
    /\ self.y + self.height > other.y

\* Entity.collides_with
collides_with(self, other) ==
    /\ self.x < other.x + other.width
    /\ self.x + self.width > other.x
    /\ self.y < other.y + other.height
    /\ self.y + self.height > other.y

----------------------------------------------------------------------------
(* Aquarium *)

Ids(s) == {s[i].id : i \in DOMAIN s}

\* random.choice([-1, 1])
Directions == {-1, 1}

\* mutant of spawn_fish: a fish moving right starts at column 0
spawn_fish_onscreen(ents, id, mx, my, pair, direction, y) ==
    LET art_pair == FISH_ART[pair]
        shape == IF direction = 1 THEN art_pair[1] ELSE art_pair[2]
        lines == <<shape>>
        x == IF direction = 1 THEN 0 ELSE mx
    IN  Append(ents, Fish(id, x, y, lines, direction))

\* Aquarium.spawn_fish with its random choices given; the color is not modelled
spawn_fish(ents, id, mx, my, pair, direction, y) ==
    LET art_pair == FISH_ART[pair]
        shape == IF direction = 1 THEN art_pair[1] ELSE art_pair[2]
        lines == <<shape>>
        x == IF direction = 1 THEN 0 - lines[1] ELSE mx
    IN  Append(ents, Fish(id, x, y, lines, direction))

FishYRange(my) == 5 .. (my - 5)

\* the list comprehension  [e for e in self.entities if e.kind == 'shark']
SharksOf(ents) == SelectSeq(ents, LAMBDA e : e.kind = "shark")

\* first loop of update: every entity moves
MoveAll(ents, mx, my) == [i \in DOMAIN ents |-> move(ents[i], mx, my)]

\* mutant of Predation: the fish is tested against the sharks only when it
\* is already dead
Predation_dead(e, sharks) ==
    IF e.kind = "fish"
         /\ \E i \in DOMAIN sharks : e.dead /\ collides_with(sharks[i], e)
    THEN [e EXCEPT !.dead = TRUE]
    ELSE e

\* mutant of Predation: the dead flag of a fish is assigned the outcome of
\* the collision test, which revives a fish its move had marked dead
Predation_revive(e, sharks) ==
    IF e.kind = "fish"
    THEN [e EXCEPT !.dead = \E i \in DOMAIN sharks : collides_with(sharks[i], e)]
    ELSE e

\* mutant of Predation: the kind of the entity is not tested
Predation_anykind(e, sharks) ==
    IF e.kind # "shark"
         /\ \E i \in DOMAIN sharks : ~e.dead /\ collides_with(sharks[i], e)
    THEN [e EXCEPT !.dead = TRUE]
    ELSE e

\* the inner loop over sharks: the fish is marked dead when a shark of the
\* snapshot collides with it
Predation(e, sharks) ==
    IF e.kind = "fish"
         /\ \E i \in DOMAIN sharks : ~e.dead /\ collides_with(sharks[i], e)
    THEN [e EXCEPT !.dead = TRUE]
    ELSE e

\* entities the bubble roll is made for
RollsFor(e) == e.kind = "fish" \/ e.kind = "other_creature"

\* the outcomes of the bubble roll for one entity: -1 (random.random() >= 0.02,
\* or no roll at all), or the offset drawn by random.randint(0, entity.width - 1)
RollOf(e) == IF RollsFor(e) THEN -1 .. (e.width - 1) ELSE {-1}

RECURSIVE RollsFrom(_, _)
RollsFrom(ents, i) ==
    IF i > Len(ents) THEN {<<>>}
    ELSE {<<c>> \o rest : c \in RollOf(ents[i]), rest \in RollsFrom(ents, i + 1)}

\* the bubble rolls of one update, one per index of the list
Rolls(ents) == RollsFrom(ents, 1)

RECURSIVE NewBubbles(_, _, _, _)
\* new_entities, built in list order; i is the index the loop is at
NewBubbles(ents, r, i, id) ==
    IF i > Len(ents) THEN <<>>
    ELSE IF r[i] >= 0
         THEN <<Bubble(id, ents[i].x + r[i], ents[i].y)>>
                 \o NewBubbles(ents, r, i + 1, id + 1)
         ELSE NewBubbles(ents, r, i + 1, id)

RECURSIVE BornOf(_, _, _, _)
BornOf(ents, r, i, id) ==
    IF i > Len(ents) THEN <<>>
    ELSE IF r[i] >= 0
         THEN <<[id |-> id, src |-> ents[i].id]>> \o BornOf(ents, r, i + 1, id + 1)
         ELSE BornOf(ents, r, i + 1, id)

\* mutant of Purge: nothing is filtered out
Purge_keep(ents) == ents

\* self.entities = [e for e in self.entities if not e.dead]
Purge(ents) == SelectSeq(ents, LAMBDA e : ~e.dead)

\* mutant of update: the snapshot holds copies of the sharks, taken before
\* the moves
update_premove(ents, mx, my, r, id) ==
    LET moved == MoveAll(ents, mx, my)
        sharks == SharksOf(ents)
        second == [i \in DOMAIN moved |-> Predation(moved[i], sharks)]
        new_entities == NewBubbles(moved, r, 1, id)
    IN  Purge(second \o new_entities)

\* Aquarium.update, given the bubble rolls r
update(ents, mx, my, r, id) ==
    LET moved == MoveAll(ents, mx, my)
        sharks == SharksOf(moved)
        second == [i \in DOMAIN moved |-> Predation(moved[i], sharks)]
        new_entities == NewBubbles(moved, r, 1, id)
    IN  Purge(second \o new_entities)

----------------------------------------------------------------------------
(* Aquarium.run.  One loop iteration: the key poll, the cadence checks     *)
(* (lines 294-315), update, draw.  Whether a cadence is due is decided by  *)
(* the wall clock and is an input here.  The state of the scheduler while  *)
(* it runs is [ents, id, ok]: the collection, the next identity, and ok =  *)
(* FALSE once a constructor has raised.                                    *)

\* the model's cap on constructing one more object
Room(st) == st.id <= MaxId /\ Len(st.ents) < MaxEntities

\* if now - last_fish_spawn > 1.5: self.spawn_fish()
\* random.randint raises ValueError on an empty range
FishStep(st, mx, my) ==
    {st} \cup
    (IF ~Room(st) THEN {}
     ELSE IF FishYRange(my) = {} THEN {[st EXCEPT !.ok = FALSE]}
     ELSE {[ents |-> spawn_fish(st.ents, st.id, mx, my, pair, direction, y),
            id |-> st.id + 1, ok |-> TRUE] :
              pair \in DOMAIN FISH_ART, direction \in Directions,
              y \in FishYRange(my)})

\* maybe_spawn_shark: random.random() < 0.05 or not
maybe_spawn_shark(st, mx, my) ==
    {st} \cup
    (IF ~Room(st) THEN {}
     ELSE UNION {IF SharkYRange(my, direction) = {}
                 THEN {[st EXCEPT !.ok = FALSE]}
                 ELSE {[ents |-> Append(st.ents, Shark(st.id, mx, my, direction, y)),
                        id |-> st.id + 1, ok |-> TRUE] :
                          y \in SharkYRange(my, direction)} :
                 direction \in Directions})

\* maybe_spawn_other_creature: random.random() < 0.09 or not
maybe_spawn_other_creature(st, mx, my) ==
    {st} \cup
    (IF ~Room(st) THEN {}
     ELSE IF OtherCreatureYRange(my) = {} THEN {[st EXCEPT !.ok = FALSE]}
     ELSE {[ents |-> Append(st.ents, OtherCreature(st.id, mx, my, direction, y)),
            id |-> st.id + 1, ok |-> TRUE] :
              direction \in Directions, y \in OtherCreatureYRange(my)})

\* if now - last_rare_spawn_check > 7: both rare spawns, in this order;
\* an exception out of the first skips the second
RareStep(st, mx, my) ==
    {st} \cup
    UNION {IF s.ok THEN maybe_spawn_other_creature(s, mx, my) ELSE {s} :
             s \in maybe_spawn_shark(st, mx, my)}

\* the outcomes of a fish cadence that fires, and of a rare check that fires
FishFired(st, mx, my) == FishStep(st, mx, my) \ {st}

RareFired(st, mx, my) ==
    UNION {IF s.ok THEN maybe_spawn_other_creature(s, mx, my) ELSE {s} :
             s \in maybe_spawn_shark(st, mx, my)}

\* the cadence checks of one iteration
Scheduled(st, mx, my) ==
    UNION {IF s.ok THEN RareStep(s, mx, my) ELSE {s} : s \in FishStep(st, mx, my)}

NoEntity == Entity(0, 0, 0, <<>>, 0)

\* no draw has run yet
NoFrame == [drawn |-> <<>>, lost |-> 0, done |-> FALSE]

\* the clock, the timers and the decorative counters where they are not
\* modelled: the values Aquarium.__init__ gives them, read at time 0
ClockIdle ==
    /\ now = 0
    /\ last_fish_spawn = 0 /\ last_rare_spawn_check = 0
    /\ last_castle_color_change = 0 /\ last_water_color_change = 0
    /\ last_water_shift = 0
    /\ castle_color_index = 0 /\ water_color_index = 0 /\ water_offset = 0
    /\ fired = {}

UnitIdle ==
    /\ ua = NoEntity /\ ub = NoEntity /\ ua0 = NoEntity
    /\ ures = FALSE /\ uop = "none"

Init ==
    /\ max_x = ViewWidth
    /\ max_y = ViewHeight
    /\ entities = <<>>
    /\ running = TRUE
    /\ pc = "top"
    /\ nextId = 1
    /\ prev = <<>>
    /\ born = <<>>
    /\ frame = NoFrame
    /\ UnitIdle
    /\ ClockIdle

\* mutant of KeyPress: the continue is missing, the iteration goes on
KeyPress_nocontinue ==
    /\ pc = "top" /\ running
    /\ running' = FALSE
    /\ pc' = "update"
    /\ UNCHANGED <<max_x, max_y, entities, nextId, prev, born, frame>>
    /\ UNCHANGED <<unitVars, clockVars>>

\* key = self.screen.getch(); if key != -1: self.running = False; continue
KeyPress ==
    /\ pc = "top" /\ running
    /\ running' = FALSE
    /\ pc' = "exit"
    /\ UNCHANGED <<max_x, max_y, entities, nextId, prev, born, frame>>
    /\ UNCHANGED <<unitVars, clockVars>>

\* no key: now = time.time() and the cadence checks
Schedule ==
    /\ pc = "top" /\ running
    /\ \E o \in Scheduled([ents |-> entities, id |-> nextId, ok |-> TRUE],
                          max_x, max_y) :
        /\ entities' = o.ents
        /\ nextId' = o.id
        /\ pc' = IF o.ok THEN "update" ELSE "crashed"
    /\ UNCHANGED <<max_x, max_y, running, prev, born, frame>>
    /\ UNCHANGED <<unitVars, clockVars>>

\* self.update()
Update ==
    /\ pc = "update"
    /\ \E r \in Rolls(entities) :
        LET moved == MoveAll(entities, max_x, max_y)
            made == BornOf(moved, r, 1, nextId)
            after == update(entities, max_x, max_y, r, nextId)
        IN  /\ nextId + Len(made) - 1 <= MaxId
            /\ Len(after) <= MaxEntities
            /\ entities' = after
            /\ nextId' = nextId + Len(made)
            /\ prev' = entities
            /\ born' = made
    /\ pc' = "draw"
    /\ UNCHANGED <<max_x, max_y, running, frame>>
    /\ UNCHANGED <<unitVars, clockVars>>

\* screen.addstr(row, col, text) raises curses.error when the write starts
\* outside the surface, or ends in the surface's lower-right corner
WriteFails(row, col, len, mx, my) ==
    \/ row < 0 \/ row >= my
    \/ col < 0 \/ col >= mx
    \/ (row = my - 1 /\ col + len >= mx)

\* Aquarium.add_water_lines: one write per line of WATER_LINE at row i + 1,
\* column 0, of the line tiled and cut to max_x characters; no write is
\* guarded.  TRUE iff a write raises
WaterFails(mx, my) ==
    \E i \in 0 .. (Len(WATER_LINE) - 1) : WriteFails(i + 1, 0, mx, mx, my)

\* Aquarium.add_castle: every write is guarded by try/except; the number of
\* writes that raise
CastleLost(mx, my) ==
    LET castle_height == Len(CASTLE_ART)
        castle_width == MaxOf(CASTLE_ART)
        y_start == my - castle_height - 1
        x_start == mx - castle_width - 2
    IN  Cardinality({i \in 0 .. (castle_height - 1) :
            WriteFails(y_start + i, x_start, CASTLE_ART[i + 1], mx, my)})

\* self.art of an entity of the collection (the record keeps only its size)
ArtOf(e) ==
    IF e.kind = "shark" THEN SHARK_ART[IF e.direction = 1 THEN 1 ELSE 2]
    ELSE IF e.kind = "other_creature" THEN OTHER_CREATURES[1]
    ELSE <<e.width>>

\* Entity.draw: every write is guarded; the number of writes that raise
EntityLost(e, mx, my) ==
    Cardinality({i \in 0 .. (Len(ArtOf(e)) - 1) :
        WriteFails(e.y + i, e.x, ArtOf(e)[i + 1], mx, my)})

RECURSIVE EntitiesLost(_, _, _)
EntitiesLost(ents, mx, my) ==
    IF ents = <<>> THEN 0
    ELSE EntityLost(Head(ents), mx, my) + EntitiesLost(Tail(ents), mx, my)

\* Aquarium.draw when no unguarded write raises
draw(ents, mx, my) ==
    [drawn |-> [i \in DOMAIN ents |-> ents[i].id],
     lost |-> CastleLost(mx, my) + EntitiesLost(ents, mx, my),
     done |-> TRUE]

\* self.draw(); time.sleep(0.1).  A curses.error out of draw is caught by
\* run, which sets running to False: the loop ends
Draw ==
    /\ pc = "draw"
    /\ IF WaterFails(max_x, max_y)
       THEN /\ frame' = [drawn |-> <<>>, lost |-> 0, done |-> FALSE]
            /\ running' = FALSE
            /\ pc' = "stopped"
       ELSE /\ frame' = draw(entities, max_x, max_y)
            /\ pc' = "top"
            /\ UNCHANGED running
    /\ prev' = <<>>
    /\ born' = <<>>
    /\ UNCHANGED <<max_x, max_y, entities, nextId>>
    /\ UNCHANGED <<unitVars, clockVars>>

Next == KeyPress \/ Schedule \/ Update \/ Draw

Spec == Init /\ [][Next]_vars

\* The cadence checks alone, on an empty aquarium of any small viewport
SpawnInit ==
    /\ max_x \in 1 .. MaxViewWidth
    /\ max_y \in 1 .. MaxViewHeight
    /\ entities = <<>>
    /\ running = TRUE
    /\ pc = "top"
    /\ nextId = 1
    /\ prev = <<>>
    /\ born = <<>>
    /\ frame = NoFrame
    /\ UnitIdle
    /\ ClockIdle

SpawnSpec == SpawnInit /\ [][Schedule]_vars

\* The loop with its clock: the periods of the five cadences and the sleep,
\* in milliseconds
FishPeriod == 1500
RarePeriod == 7000
CastlePeriod == 500
WaterColorPeriod == 1000
WaterShiftPeriod == 150
Sleep == 100

\* len(self.castle_colors), len(self.water_colors)
CastlePalette == 4
WaterPalette == 2

Delays == {Sleep, Stall}

Cadences == {"fish", "rare", "castle", "water_color", "water_shift"}

\* mutant of Due: a cadence fires as soon as its period has elapsed
Due_ge(t, last, period) == t - last >= period

\* if now - last > period
Due(t, last, period) == t - last > period

\* mutant of NextIndex: the index is not wrapped
NextIndex_nowrap(i, n) == i + 1

\* (index + 1) % len(colors)
NextIndex(i, n) == (i + 1) % n

\* no key: now = time.time(), the five cadence checks in the order of the
\* code; an exception out of a spawn leaves the rest of the iteration undone
Tick ==
    /\ pc = "top" /\ running
    /\ \E d \in Delays :
        LET t == now + d
            st == [ents |-> entities, id |-> nextId, ok |-> TRUE]
            fishDue == Due(t, last_fish_spawn, FishPeriod)
            rareDue == Due(t, last_rare_spawn_check, RarePeriod)
            castleDue == Due(t, last_castle_color_change, CastlePeriod)
            colorDue == Due(t, last_water_color_change, WaterColorPeriod)
            shiftDue == Due(t, last_water_shift, WaterShiftPeriod)
        IN  /\ t <= MaxTime
            /\ now' = t
            /\ \E f \in (IF fishDue THEN FishFired(st, max_x, max_y) ELSE {st}) :
               \E r \in (IF f.ok /\ rareDue
                         THEN RareFired(f, max_x, max_y) ELSE {f}) :
                /\ entities' = r.ents
                /\ nextId' = r.id
                /\ pc' = IF r.ok THEN "update" ELSE "crashed"
                /\ last_fish_spawn' =
                      IF fishDue /\ f.ok THEN t ELSE last_fish_spawn
                /\ last_rare_spawn_check' =
                      IF rareDue /\ r.ok THEN t ELSE last_rare_spawn_check
                /\ castle_color_index' =
                      IF r.ok /\ castleDue
                      THEN NextIndex(castle_color_index, CastlePalette)
                      ELSE castle_color_index
                /\ last_castle_color_change' =
                      IF r.ok /\ castleDue THEN t ELSE last_castle_color_change
                /\ water_color_index' =
                      IF r.ok /\ colorDue
                      THEN NextIndex(water_color_index, WaterPalette)
                      ELSE water_color_index
                /\ last_water_color_change' =
                      IF r.ok /\ colorDue THEN t ELSE last_water_color_change
                /\ water_offset' =
                      IF r.ok /\ shiftDue THEN water_offset + 1 ELSE water_offset
                /\ last_water_shift' =
                      IF r.ok /\ shiftDue THEN t ELSE last_water_shift
                /\ fired' = {c \in Cadences :
                      \/ c = "fish" /\ fishDue /\ f.ok
                      \/ c = "rare" /\ rareDue /\ r.ok
                      \/ c = "castle" /\ castleDue /\ r.ok
                      \/ c = "water_color" /\ colorDue /\ r.ok
                      \/ c = "water_shift" /\ shiftDue /\ r.ok}
    /\ UNCHANGED <<max_x, max_y, running, prev, born, frame>>
    /\ UNCHANGED unitVars

ClockNext == KeyPress \/ Tick \/ Update \/ Draw

ClockSpec == Init /\ [][ClockNext]_vars

\* The whole loop in a viewport too short for the sharks
TinyInit ==
    /\ max_x \in 1 .. MaxViewWidth
    /\ max_y \in 1 .. MaxTinyHeight
    /\ entities = <<>>
    /\ running = TRUE
    /\ pc = "top"
    /\ nextId = 1
    /\ prev = <<>>
    /\ born = <<>>
    /\ frame = NoFrame
    /\ UnitIdle
    /\ ClockIdle

TinySpec == TinyInit /\ [][Next]_vars

----------------------------------------------------------------------------
(* Unit level: the methods of Entity called on entities built directly,    *)
(* as src/tests/test_entity_collision.py does.                             *)

RECURSIVE ArtsOf(_)
\* the arts of exactly n lines, each line 0..MaxLine long
ArtsOf(n) ==
    IF n = 0 THEN {<<>>}
    ELSE {<<l>> \o rest : l \in 0 .. MaxLine, rest \in ArtsOf(n - 1)}

UnitArts == UNION {ArtsOf(n) : n \in 0 .. MaxLines}

Coords == (0 - MaxCoord) .. MaxCoord

\* Entity(x, y, art, direction=1, color=0) as the test builds them
CollideEntities(id) ==
    {Entity(id, x, y, art, 1) : x \in Coords, y \in Coords, art \in UnitArts}

\* the moving classes, built directly
MoveEntities ==
    {[Entity(1, x, y, art, d) EXCEPT !.kind = k] :
        x \in Coords, y \in Coords, art \in UnitArts, d \in Directions,
        k \in {"fish", "shark", "other_creature"}}
    \cup {Bubble(1, x, y) : x \in Coords, y \in 1 .. MaxCoord}

SimIdle ==
    /\ max_x = ViewWidth /\ max_y = ViewHeight
    /\ entities = <<>> /\ running = TRUE /\ pc = "top"
    /\ nextId = 1 /\ prev = <<>> /\ born = <<>> /\ frame = NoFrame
    /\ ClockIdle

UnitInit ==
    /\ SimIdle
    /\ \/ ua \in CollideEntities(1) /\ ub \in CollideEntities(2)
       \/ ua \in MoveEntities /\ ub = NoEntity
    /\ ua0 = ua
    /\ ures = FALSE
    /\ uop = "none"

\* ua.collides_with(ub)
Collide ==
    /\ uop = "none" /\ ub # NoEntity
    /\ ures' = collides_with(ua, ub)
    /\ uop' = "collides_with"
    /\ UNCHANGED <<ua, ub, ua0>>
    /\ UNCHANGED <<simVars, clockVars>>

\* ua.move(max_x, max_y), as update calls it on the entities of the collection
\* (none of which is dead when update starts)
Move ==
    /\ ub = NoEntity /\ ~ua.dead
    /\ ua' = move(ua, max_x, max_y)
    /\ ua0' = ua
    /\ uop' = "move"
    /\ UNCHANGED <<ub, ures>>
    /\ UNCHANGED <<simVars, clockVars>>

UnitNext == Collide \/ Move

UnitSpec == UnitInit /\ [][UnitNext]_vars

----------------------------------------------------------------------------
(* Claims about Entity.collides_with and Entity.move (UnitSpec)            *)

Called(name) == uop = name

\* the cells of the half-open rectangle [x, x+width) x [y, y+height)
SharesCell(a, b) ==
    \E cx \in a.x .. (a.x + a.width - 1), cy \in a.y .. (a.y + a.height - 1) :
        /\ cx \in b.x .. (b.x + b.width - 1)
        /\ cy \in b.y .. (b.y + b.height - 1)

Sized(e) == e.width >= 1 /\ e.height >= 1

\* C3 as stated: for all sizes >= 0, collides_with is true iff the two half-open
\* rectangles share a cell.
C3_AllSizes ==
    Called("collides_with") => (ures <=> SharesCell(ua, ub))

\* C3 amended: when both entities have width >= 1 and height >= 1,
\* collides_with is true iff the half-open rectangles share a cell; for all
\* sizes, shared cells imply a collision and an entity at or beyond the
\* other's right edge does not collide.
C3_Collides ==
    Called("collides_with") =>
        /\ (Sized(ua) /\ Sized(ub)) => (ures <=> SharesCell(ua, ub))
        /\ SharesCell(ua, ub) => ures
        /\ (ua.x >= ub.x + ub.width \/ ub.x >= ua.x + ua.width) => ~ures

\* two sized rectangles that touch at a vertical edge, rows overlapping
C3_Witness ==
    /\ Called("collides_with") /\ Sized(ua) /\ Sized(ub)
    /\ ua.x + ua.width = ub.x /\ ua.y = ub.y
    /\ ~ures

\* C4: collision is symmetric: a.collides_with(b) equals b.collides_with(a).
C4_Symmetric ==
    Called("collides_with") => (ures = collides_with(ub, ua))

\* a collision of two entities of different place and size
C4_Witness ==
    /\ Called("collides_with") /\ ures
    /\ ua.x < ub.x /\ ua.y > ub.y /\ ua.width # ub.width

SamePlaceAndSize(a, b) ==
    /\ a.x = b.x /\ a.y = b.y
    /\ a.width = b.width /\ a.height = b.height

\* C5 as stated: two entities built with the same x, y and art always collide.
C5_AnyArt ==
    (Called("collides_with") /\ SamePlaceAndSize(ua, ub)) => ures

\* C5 amended: two entities built with the same x, y and art collide when the
\* art has at least one line and a line of at least one character (width >= 1
\* and height >= 1); with an empty art or only empty lines they do not.
C5_SameCollide ==
    (Called("collides_with") /\ SamePlaceAndSize(ua, ub)) => (ures <=> Sized(ua))

C5_Witness ==
    /\ Called("collides_with") /\ SamePlaceAndSize(ua, ub)
    /\ Sized(ua) /\ ures

Horizontal(e) == e.kind \in {"fish", "shark", "other_creature"}

\* C6: one move of a live fish, shark or other creature changes x by exactly
\* direction, leaves y unchanged, and leaves the entity dead iff the new x is
\* < -width or > viewport width.
C6_Move ==
    (Called("move") /\ Horizontal(ua0) /\ ~ua0.dead) =>
        /\ ua.x = ua0.x + ua0.direction
        /\ ua.y = ua0.y
        /\ ua.dead <=> (ua.x < 0 - ua.width \/ ua.x > max_x)

\* a shark that has just left through the right edge
C6_Witness ==
    /\ Called("move") /\ ua0.kind = "shark" /\ ~ua0.dead
    /\ ua.x = max_x + 1 /\ ua.dead

----------------------------------------------------------------------------
(* Claims about Aquarium.update (Spec).  In a state with pc = "draw" the   *)
(* update of this iteration has just run: prev is the collection at its    *)
(* entry, entities the collection at its return.                           *)

Updated == pc = "draw"

Present(id) == id \in Ids(entities)

\* the entity as the first loop of update leaves it
Moved(e) == move(e, max_x, max_y)

\* the bounding box of f lies inside the bounding box of s
Inside(f, s) ==
    /\ s.x <= f.x /\ f.x + f.width <= s.x + s.width
    /\ s.y <= f.y /\ f.y + f.height <= s.y + s.height

\* a fish of prev whose box was inside the box of a shark of prev
Engulfed(f) ==
    /\ f.kind = "fish"
    /\ \E j \in DOMAIN prev : prev[j].kind = "shark" /\ Inside(f, prev[j])

\* the update removes every fish that was inside a shark when it started
RemovedByUpdate ==
    Updated => \A i \in DOMAIN prev : Engulfed(prev[i]) => ~Present(prev[i].id)

\* an object that has left the collection is not in it after any step:
\* every identity below nextId has been constructed already
NeverBack ==
    \A id \in 1 .. (nextId - 1) : ~Present(id) => id \notin Ids(entities')

\* C1: a live fish whose box lies inside a live shark's box at the start of
\* update is absent from the collection after that update, and no later update
\* or spawn puts it back.
C1_Predation == [](RemovedByUpdate) /\ [][NeverBack]_vars

\* a fish inside a shark, in bounds after its move, is gone; the shark stays
C1_Witness ==
    /\ Updated
    /\ \E i, j \in DOMAIN prev :
        /\ prev[i].kind = "fish" /\ prev[j].kind = "shark"
        /\ Inside(prev[i], prev[j])
        /\ ~Moved(prev[i]).dead
        /\ ~Present(prev[i].id) /\ Present(prev[j].id)

\* C2: every bubble an update adds belongs to a fish or other creature that is
\* still in the collection after the update (one marked dead in this tick has
\* no bubble made for it).
C2_LiveEmitters ==
    Updated => \A k \in DOMAIN born : Present(born[k].src)

\* C7: every update moves a bubble of the collection up by exactly 1 with x
\* unchanged, and removes it in exactly the update where its y becomes < 1; a
\* bubble in the collection has y >= 1.
C7_Bubble ==
    /\ \A j \in DOMAIN entities : entities[j].kind = "bubble" => entities[j].y >= 1
    /\ Updated => \A i \in DOMAIN prev :
         prev[i].kind = "bubble" =>
            IF prev[i].y - 1 < 1
            THEN ~Present(prev[i].id)
            ELSE \E j \in DOMAIN entities :
                    entities[j] = [prev[i] EXCEPT !.y = prev[i].y - 1]

\* a bubble that was at y = 1 has been removed by the update
C7_Witness ==
    /\ Updated
    /\ \E i \in DOMAIN prev :
        prev[i].kind = "bubble" /\ prev[i].y = 1 /\ ~Present(prev[i].id)

\* a fish of prev the update removed although its own move left it in bounds
Eaten(f) == f.kind = "fish" /\ ~Moved(f).dead /\ ~Present(f.id)

\* C10: a fish is marked dead by predation only when it overlaps a shark that
\* is itself live at the time of the check (a shark whose move took it out of
\* the viewport kills no fish).
C10_LiveShark ==
    Updated => \A i \in DOMAIN prev :
        Eaten(prev[i]) =>
            \E j \in DOMAIN prev :
                /\ prev[j].kind = "shark"
                /\ ~Moved(prev[j]).dead
                /\ collides_with(Moved(prev[j]), Moved(prev[i]))

----------------------------------------------------------------------------
(* Claims about the spawns (SpawnSpec).  A step taken from pc = "top"      *)
(* constructs the entities of the next state whose id is >= nextId.         *)

\* no column of the entity is one of the visible columns 0 .. max_x - 1
OffScreen(e) == e.x + e.width <= 0 \/ e.x >= max_x

\* off-screen on the side the entity enters from
EntrySide(e) ==
    /\ e.direction \in {-1, 1}
    /\ e.direction = 1 => e.x = 0 - e.width
    /\ e.direction = -1 => e.x = max_x
    /\ OffScreen(e)

\* P holds of every entity of kind k the step constructs
Spawned(k, P(_)) ==
    pc = "top" =>
        \A j \in DOMAIN entities' :
            (entities'[j].id >= nextId /\ entities'[j].kind = k) => P(entities'[j])

FishPlaced(e) == EntrySide(e) /\ e.y \in 5 .. (max_y - 5)

\* C8: every fish spawn_fish creates has direction in {-1,+1}, x off the
\* visible columns on its entry side (-width or viewport width) and
\* y within [5, viewport height - 5].
C8_FishSpawn == [][Spawned("fish", FishPlaced)]_vars

\* a fish entering from the right on the lowest row of its range
C8_Witness ==
    /\ pc = "update"
    /\ \E j \in DOMAIN entities :
        /\ entities[j].kind = "fish" /\ entities[j].direction = -1
        /\ entities[j].x = max_x /\ entities[j].y = max_y - 5
        /\ entities[j].y > 5

SharkPlaced(e) ==
    /\ EntrySide(e)
    /\ e.width = ArtWidth(SHARK_ART[IF e.direction = 1 THEN 1 ELSE 2])
    /\ e.height = Len(SHARK_ART[IF e.direction = 1 THEN 1 ELSE 2])
    /\ e.y \in 8 .. (max_y - e.height - 2)

CreaturePlaced(e) ==
    /\ EntrySide(e)
    /\ e.width = ArtWidth(OTHER_CREATURES[1])
    /\ e.height = Len(OTHER_CREATURES[1])
    /\ e.y \in 5 .. (max_y - e.height - 5)

\* C9: every spawned shark has y within [8, viewport height - art height - 2],
\* every spawned other creature has y within [5, viewport height - art height
\* - 5], and both start off-screen on their entry side (x = -width or x =
\* viewport width), width being that of the art used for the direction.
C9_RareSpawn ==
    [][Spawned("shark", SharkPlaced) /\ Spawned("other_creature", CreaturePlaced)]_vars

\* a shark and a creature made by one rare check, each on the last row of
\* its range
C9_Witness ==
    /\ pc = "update"
    /\ \E i, j \in DOMAIN entities :
        /\ entities[i].kind = "shark" /\ entities[i].direction = 1
        /\ entities[i].x = 0 - ArtWidth(SHARK_ART[1])
        /\ entities[i].y = max_y - 6 /\ entities[i].y > 8
        /\ entities[j].kind = "other_creature" /\ entities[j].direction = -1
        /\ entities[j].x = max_x /\ entities[j].y = max_y - 6

----------------------------------------------------------------------------
(* Claims about the loop, the purge and the drawing                        *)

Live(ents) == \A i \in DOMAIN ents : ~ents[i].dead

\* C11: at the end of every update, at the start of the next one and at
\* every draw the collection holds no entity whose dead flag is set; a draw
\* draws exactly the entities of the collection.
C11_NoDead ==
    /\ Live(entities)
    /\ (frame.done /\ pc \in {"top", "exit"}) =>
          frame.drawn = [i \in DOMAIN entities |-> entities[i].id]

\* an update has purged an entity and left another, which is then drawn
C11_Witness ==
    /\ pc = "top" /\ frame.done /\ Len(frame.drawn) = 1
    /\ nextId > 2

LoopOver == pc \in {"exit", "stopped", "crashed"}

\* a step that sees the key is taken at the top of an iteration and changes
\* nothing but running
KeyAtTop ==
    (pc' = "exit" /\ pc # "exit") =>
        /\ pc = "top" /\ ~running'
        /\ UNCHANGED <<entities, nextId, frame, clockVars>>

\* an iteration that saw no key goes through the cadence checks, update and
\* draw, in this order
OneUnit ==
    /\ (pc = "top" /\ pc' # "exit") => pc' \in {"top", "update", "crashed"}
    /\ pc = "update" => pc' \in {"update", "draw"}
    /\ pc = "draw" => pc' \in {"draw", "top", "stopped"}

\* C13: a key seen at the top of an iteration stops the loop: running is
\* False, and from then on nothing is spawned, changed, updated or drawn;
\* an iteration that saw no key runs its cadence checks, update and draw as
\* one unit.
C13_KeyStop ==
    /\ [](~running => LoopOver)
    /\ [][KeyAtTop /\ OneUnit /\ (LoopOver => UNCHANGED vars)]_vars

\* the loop stopped by a key with entities in the collection
C13_Witness == pc = "exit" /\ ~running /\ Len(entities) = MaxEntities

\* C14: a write of Aquarium.draw that fails is discarded alone: the draw goes
\* on to its refresh and the loop keeps running.
C14_Recovered == pc # "stopped" /\ (pc = "top" /\ frame # NoFrame => frame.done)

\* C20: spawn_fish, Shark() and OtherCreature() always complete, so the loop
\* stops only by a key, a surface error or an interrupt, each of which sets
\* running to False.
C20_NoCrash == LoopOver => ~running

----------------------------------------------------------------------------
(* More claims about Aquarium.update (Spec)                                *)

\* the entity of prev with its fixed attributes, whatever its place and flag
SameObject(old, new) ==
    /\ new.id = old.id /\ new.kind = old.kind
    /\ new.direction = old.direction
    /\ new.width = old.width /\ new.height = old.height

\* what update may change on an entity that stays: x of the horizontal
\* kinds, y of a bubble
FixedByUpdate ==
    Updated =>
        \A i \in DOMAIN prev :
            /\ \A j \in DOMAIN entities :
                  entities[j].id = prev[i].id =>
                      /\ SameObject(prev[i], entities[j])
                      /\ prev[i].kind = "bubble" => entities[j].x = prev[i].x
                      /\ prev[i].kind # "bubble" => entities[j].y = prev[i].y
            /\ Moved(prev[i]).dead => ~Present(prev[i].id)

\* a step other than update changes no entity of the collection
FixedElsewhere ==
    pc # "update" =>
        \A i \in DOMAIN entities :
            i \in DOMAIN entities' /\ entities'[i] = entities[i]

\* C16: no step changes the direction, width, height or kind of an entity;
\* update changes only x (horizontal kinds), y (bubbles) and the dead flag,
\* and a dead flag its move has set is not unset (the entity is purged).
C16_Fixed == [](FixedByUpdate) /\ [][FixedElsewhere]_vars

\* a fish whose move took it out of bounds while a shark stayed
C16_Witness ==
    /\ Updated
    /\ \E i, j \in DOMAIN prev :
        /\ prev[i].kind = "fish" /\ Moved(prev[i]).dead /\ ~Present(prev[i].id)
        /\ prev[j].kind = "shark" /\ Present(prev[j].id)

\* a shark of prev overlaps the fish after both have moved
OverlapsAfter(f) ==
    \E j \in DOMAIN prev :
        prev[j].kind = "shark" /\ collides_with(Moved(prev[j]), Moved(f))

OverlapsBefore(f) ==
    \E j \in DOMAIN prev : prev[j].kind = "shark" /\ collides_with(prev[j], f)

\* C17: predation is decided on the positions after the moves: a fish that a
\* shark overlaps after this tick's moves is removed by this update, and a
\* fish in bounds that no shark overlaps after the moves stays, whether or
\* not one overlapped it before.
C17_PostMove ==
    Updated =>
        \A i \in DOMAIN prev :
            prev[i].kind = "fish" =>
                /\ OverlapsAfter(prev[i]) => ~Present(prev[i].id)
                /\ (~OverlapsAfter(prev[i]) /\ ~Moved(prev[i]).dead)
                       => Present(prev[i].id)

\* a fish no shark overlapped before the moves, overlapped after them, gone
C17_Witness ==
    /\ Updated
    /\ \E i \in DOMAIN prev :
        /\ prev[i].kind = "fish" /\ ~Moved(prev[i]).dead
        /\ ~OverlapsBefore(prev[i]) /\ OverlapsAfter(prev[i])
        /\ ~Present(prev[i].id)

\* the number of updates after which the entity's own move marks it dead
Remaining(e) ==
    IF e.kind = "bubble" THEN e.y
    ELSE IF e.direction = 1 THEN max_x + 1 - e.x
    ELSE e.x + e.width + 1

\* C18: every entity of the collection is removed after a bounded number of
\* updates: a horizontal entity has between 1 and max_x + width + 1 updates
\* left, a bubble as many as its y, and every update takes exactly one off
\* (or removes the entity).
C18_Leaves ==
    /\ \A j \in DOMAIN entities :
          /\ Remaining(entities[j]) >= 1
          /\ entities[j].kind # "bubble" =>
                /\ entities[j].direction \in {-1, 1}
                /\ Remaining(entities[j]) <= max_x + entities[j].width + 1
    /\ Updated =>
          \A i \in DOMAIN prev :
              /\ Remaining(prev[i]) = 1 => ~Present(prev[i].id)
              /\ \A j \in DOMAIN entities :
                    entities[j].id = prev[i].id =>
                        Remaining(entities[j]) = Remaining(prev[i]) - 1

\* a shark on its last column leaves, and a bubble on row 1 leaves
C18_Witness ==
    /\ Updated
    /\ \E i \in DOMAIN prev :
        /\ prev[i].kind \in {"shark", "bubble"}
        /\ Remaining(prev[i]) = 1 /\ ~Present(prev[i].id)
    /\ \E j \in DOMAIN entities : entities[j].id \in Ids(prev)

\* C19: an update removes a shark, other creature or bubble only when its own
\* move marked it dead, and a fish only for its move or for overlap with a
\* shark; a shark in bounds stays; the only entities an update adds are the
\* bubbles it made.
C19_Causes ==
    Updated =>
        /\ \A i \in DOMAIN prev :
              ~Present(prev[i].id) =>
                  \/ Moved(prev[i]).dead
                  \/ prev[i].kind = "fish" /\ OverlapsAfter(prev[i])
        /\ \A j \in DOMAIN entities :
              entities[j].id \notin Ids(prev) =>
                  /\ entities[j].kind = "bubble"
                  /\ \E k \in DOMAIN born : born[k].id = entities[j].id

\* a shark overlapping an other creature after the moves: both stay
C19_Witness ==
    /\ Updated
    /\ \E i, j \in DOMAIN prev :
        /\ prev[i].kind = "other_creature" /\ prev[j].kind = "shark"
        /\ collides_with(Moved(prev[j]), Moved(prev[i]))
        /\ Present(prev[i].id) /\ Present(prev[j].id)

----------------------------------------------------------------------------
(* Claims about the cadences and the decorative counters (ClockSpec)       *)

\* an iteration that saw no key and got through its cadence checks
Iteration == pc = "top" /\ pc' = "update"

\* the cadence fires in this iteration exactly when the one clock value read
\* is more than the period after its last firing, and then remembers it
FiresRight(c, last, lastNext, period) ==
    /\ c \in fired' <=> now' - last > period
    /\ lastNext = IF now' - last > period THEN now' ELSE last
    /\ lastNext # last => lastNext - last > period

\* C12: in an iteration that sees no key one clock value is read, and each of
\* the five cadences fires if and only if that value minus its last firing
\* time exceeds its period (1.5 s, 7 s, 0.5 s, 1.0 s, 0.15 s); its last
\* firing time becomes the clock value, so two firings of one cadence are
\* more than a period apart; a fish cadence that fires spawns a fish.
C12_Cadence ==
    [][Iteration =>
        /\ FiresRight("fish", last_fish_spawn, last_fish_spawn', 1500)
        /\ FiresRight("rare", last_rare_spawn_check, last_rare_spawn_check', 7000)
        /\ FiresRight("castle", last_castle_color_change,
                      last_castle_color_change', 500)
        /\ FiresRight("water_color", last_water_color_change,
                      last_water_color_change', 1000)
        /\ FiresRight("water_shift", last_water_shift, last_water_shift', 150)
        /\ "fish" \in fired' <=>
              \E j \in DOMAIN entities' :
                  entities'[j].kind = "fish" /\ entities'[j].id = nextId]_vars

\* the iteration at 1.6 s: the fish cadence fires, 1.5 s was not enough; the
\* castle cadence, last fired at 1.2 s, does not
C12_Witness ==
    /\ pc = "update" /\ now = 1600
    /\ "fish" \in fired /\ last_fish_spawn = 1600
    /\ "castle" \notin fired /\ last_castle_color_change = 1200
    /\ "rare" \notin fired

\* what one step does to the decorative counters
CountersStep ==
    /\ castle_color_index' =
          IF Iteration /\ "castle" \in fired'
          THEN (castle_color_index + 1) % 4 ELSE castle_color_index
    /\ water_color_index' =
          IF Iteration /\ "water_color" \in fired'
          THEN (water_color_index + 1) % 2 ELSE water_color_index
    /\ water_offset' =
          IF Iteration /\ "water_shift" \in fired'
          THEN water_offset + 1 ELSE water_offset

\* C15: the castle color index stays in 0..3 and the water color index in
\* 0..1; a firing of a color cadence advances its index by 1 modulo the
\* palette size, a firing of the water shift adds 1 to the water offset, and
\* no other step changes the three counters.
C15_Counters ==
    /\ [](castle_color_index \in 0 .. 3 /\ water_color_index \in 0 .. 1
          /\ water_offset >= 0)
    /\ [][CountersStep]_vars

\* the fourth firing of the castle cadence takes the index back to 0
C15_Witness ==
    /\ pc = "update" /\ "castle" \in fired
    /\ castle_color_index = 0 /\ water_color_index = 0
    /\ water_offset = 12

====
